---- MODULE Spec2Model ----
(***************************************************************************)
(* Model of train.py (HitkoDev/triplet-reid): the K-selector               *)
(* sample_k_fids_for_pid, the PK-batch input pipeline built in main(), and *)
(* the control flow of main(): argument handling, resume, the training     *)
(* loop, checkpointing and interruption.                                   *)
(*                                                                         *)
(* Three specifications share the variables:                               *)
(*   SpecSel  - calls of sample_k_fids_for_pid on bounded datasets         *)
(*   SpecPipe - the tf.data pipeline of main() (lines 245-290)             *)
(*   Spec     - runs of main() against one experiment directory            *)
(***************************************************************************)
EXTENDS Integers, Sequences, FiniteSets, TLC

VARIABLES
    \* ---- dataset (train.py:242) ----
    pids,           \* all_pids: identity label of every row of the csv
    fids,           \* all_fids: locator of every row of the csv
    \* ---- one call of sample_k_fids_for_pid ----
    call,           \* <<>> or <<record of the last call's inputs and outputs>>
    \* ---- input pipeline (train.py:245-290) ----
    buffer,         \* shuffle buffer: identities not yet emitted this epoch
    taken,          \* elements passed through take() in this epoch
    epoch,          \* number of the current repetition of the identity list
    flat,           \* unbatch: (fid, pid) pairs of its element not yet pulled
    loading,        \* calls of the parallel map in flight, in input order
    loaded,         \* (im, fid, pid) entries waiting to be rebatched
    batch,          \* prefetch buffer: <<>> or the batch of P*K entries in it
    nBatches,       \* batches emitted so far
    it_status,      \* iterator: "idle", "ok", "end_of_sequence" or "error"
    \* ---- main() ----
    pc,             \* position of the process in main(), "exited" when none
    args,           \* the args namespace (effective arguments)
    warned,         \* keys for which the resume conflict warning was printed
    disk,           \* experiment_root on disk
    disk0,          \* experiment_root as it was when the process started
    global_step,    \* the tf.Variable global_step of the session
    step,           \* local `step` of main(): <<>> while unbound, else <<n>>
    i,              \* loop variable of the training loop
    interrupted,    \* u.interrupted
    exit_status,    \* <<>> while running or never run, else <<status>>
    failure,        \* what ended the process ("none" on a regular end)
    saves           \* the checkpoint_saver.save calls of this process

selVars  == <<call>>
dataVars == <<pids, fids>>
pipeVars == <<buffer, taken, epoch, flat, loading, loaded, batch, nBatches,
              it_status>>
mainVars == <<pc, args, warned, disk, disk0, global_step, step, i,
              interrupted, exit_status, failure, saves>>
vars     == <<pids, fids, call, buffer, taken, epoch, flat, loading, loaded,
              batch, nBatches, it_status, pc, args, warned, disk, disk0,
              global_step, step, i, interrupted, exit_status, failure, saves>>

(***************************************************************************)
(* Bounds of the model.                                                    *)
(***************************************************************************)
MaxRows == 3
MaxPid == 3
MaxK == 4
MaxP == 2
MaxBatchK == 2
MaxBatches == 2
MaxThreads == 2
MaxIter == 2
MaxFreq == 2

Min(a, b) == IF a < b THEN a ELSE b

(***************************************************************************)
(* sample_k_fids_for_pid (train.py:156-172)                                *)
(***************************************************************************)
\* tf.boolean_mask: the entries of tensor whose mask entry is true, in order.
RECURSIVE boolean_mask(_, _)
boolean_mask(tensor, mask) ==
    IF tensor = <<>> THEN <<>>
    ELSE (IF Head(mask) THEN <<Head(tensor)>> ELSE <<>>)
         \o boolean_mask(Tail(tensor), Tail(mask))

\* tf.equal(all_pids, pid), elementwise.
equal(all_pids, pid) == [r \in 1..Len(all_pids) |-> all_pids[r] = pid]

\* tf.math.ceil(batch_k / float32(count)) cast to int32.  The operands are
\* far below 2^24, where the float32 quotient rounds to an integer only if
\* it is one, so the ceiling is the exact integer ceiling.
CeilDiv(a, b) == (a + b - 1) \div b

\* A bug variant: floor + 1 instead of ceil (one multiple too many when
\* count divides batch_k).
PaddedCountFloorPlusOne(batch_k, count) == ((batch_k \div count) + 1) * count

\* A bug variant: floor instead of ceil.
PaddedCountFloor(batch_k, count) == (batch_k \div count) * count

\* line 165
padded_count(batch_k, count) == CeilDiv(batch_k, count) * count

\* line 166: tf.math.mod(tf.range(padded_count), count), 0-based values.
full_range(padded, count) == [j \in 1..padded |-> (j - 1) % count]

\* tf.random.shuffle: the outcome is one permutation perm of the positions.
shuffle(t, perm) == [j \in 1..Len(t) |-> t[perm[j]]]

\* t[:k]
FirstK(t, k) == SubSeq(t, 1, Min(k, Len(t)))

\* tf.gather(params, indices) with 0-based indices; defined only in range.
GatherOk(params, indices) ==
    \A j \in 1..Len(indices) : indices[j] >= 0 /\ indices[j] < Len(params)
gather(params, indices) ==
    [j \in 1..Len(indices) |->
        IF indices[j] >= 0 /\ indices[j] < Len(params)
        THEN params[indices[j] + 1] ELSE 0]

\* tf.fill([k], v)
fill(k, v) == [j \in 1..k |-> v]

\* The set of outcomes tf.random.shuffle can produce on n elements.
ShuffleOutcomes(n) == Permutations(1..n)

Count(pid, all_pids) == Len(boolean_mask(all_pids, equal(all_pids, pid)))

\* The function itself, with the shuffle outcome perm made explicit.
\* ok is false where TensorFlow raises (gather out of range).
sample_k_fids_for_pid(pid, all_fids, all_pids, batch_k, perm) ==
    LET possible_fids == boolean_mask(all_fids, equal(all_pids, pid))
        count         == Len(possible_fids)
        padded        == padded_count(batch_k, count)
        range         == full_range(padded, count)
        shuffled      == shuffle(range, perm)
        selected      == FirstK(shuffled, batch_k)
    IN  [pid           |-> pid,
         batch_k       |-> batch_k,
         count         |-> count,
         indices       |-> selected,
         selected_fids |-> gather(possible_fids, selected),
         pids          |-> fill(batch_k, pid),
         ok            |-> GatherOk(possible_fids, selected)]

(***************************************************************************)
(* Datasets: the csv rows as load_dataset returns them (train.py:242).     *)
(* Locators of distinct rows are distinct; row r has locator 10 * r + pid. *)
(***************************************************************************)
PidSeqs == UNION {[1..n -> 1..MaxPid] : n \in 1..MaxRows}
Locators(ps) == [r \in 1..Len(ps) |-> 10 * r + ps[r]]

\* np.unique(pids), as a set (the shuffle buffer holds all of them)
unique(ps) == {ps[r] : r \in 1..Len(ps)}

(***************************************************************************)
(* SpecSel: calls of the K-selector.                                       *)
(***************************************************************************)
MainIdle ==
    /\ pc = "exited"
    /\ args = <<>>
    /\ warned = {}
    /\ disk = <<>>
    /\ disk0 = <<>>
    /\ global_step = 0
    /\ step = <<>>
    /\ i = 0
    /\ interrupted = FALSE
    /\ exit_status = <<>>
    /\ failure = "none"
    /\ saves = <<>>

PipeIdle ==
    /\ buffer = {}
    /\ taken = 0
    /\ epoch = 0
    /\ flat = <<>>
    /\ loading = <<>>
    /\ loaded = <<>>
    /\ batch = <<>>
    /\ nBatches = 0
    /\ it_status = "idle"

InitSel ==
    /\ pids \in PidSeqs
    /\ fids = Locators(pids)
    /\ call = <<>>
    /\ PipeIdle
    /\ MainIdle

\* one call: the record holds the inputs and what the call returned
CallSelector ==
    /\ call = <<>>
    /\ \E pid \in unique(pids), batch_k \in 1..MaxK :
        \E perm \in ShuffleOutcomes(padded_count(batch_k, Count(pid, pids))) :
            call' = <<sample_k_fids_for_pid(pid, fids, pids, batch_k, perm)>>
    /\ UNCHANGED <<dataVars, pipeVars, mainVars>>

\* the caller has consumed the result; the next call is independent of it
ReturnSelector ==
    /\ call # <<>>
    /\ call' = <<>>
    /\ UNCHANGED <<dataVars, pipeVars, mainVars>>

NextSel == CallSelector \/ ReturnSelector

SpecSel == InitSel /\ [][NextSel]_vars

(***************************************************************************)
(* The input pipeline of main() (train.py:245-290).                        *)
(***************************************************************************)
ArgKeys == {"resume", "train_set", "image_root", "batch_p", "batch_k",
            "train_iterations", "checkpoint_frequency"}

\* A bug variant: no truncation to a multiple of P.
TakeAll(ps, batch_p) == Cardinality(unique(ps))

\* line 253: (len(unique_pids) // args.batch_p) * args.batch_p
take_count(ps, batch_p) == (Cardinality(unique(ps)) \div batch_p) * batch_p

\* line 286
batch_size == args.batch_p * args.batch_k

\* line 261: dataset.unbatch() of one (selected_fids, pids) element; both
\* components must have the same length.
UnbatchOk(r) == r.ok /\ Len(r.selected_fids) = Len(r.pids)
unbatch(r) == [j \in 1..Len(r.pids) |-> <<r.selected_fids[j], r.pids[j]>>]

\* line 448: sess.run(dataset_iterator.initializer)
IteratorInit ==
    /\ buffer = unique(pids)
    /\ taken = 0
    /\ epoch = 1
    /\ flat = <<>>
    /\ loading = <<>>
    /\ loaded = <<>>
    /\ batch = <<>>
    /\ nBatches = 0
    /\ it_status = "ok"

\* lines 266-270: a call of fid_to_image is started for a (fid, pid) pair.
StartCall(q, pair) ==
    Append(q, [fid |-> pair[1], pid |-> pair[2], out |-> <<>>])

\* lines 248-270: the parallel map has a free slot and unbatch has handed
\* out all pairs of its last element, so the pull of the next pair goes
\* through from_tensor_slices, shuffle(len(unique_pids)), take, repeat,
\* map(sample_k_fids_for_pid) and unbatch.  shuffle with a full buffer
\* emits the identities of one epoch in a uniformly random order; take
\* ends the epoch after take_count elements and repeat starts the next one
\* with a fresh shuffle.  The first pair of the new element is the one
\* pulled, the others stay in unbatch.
MapNext ==
    /\ it_status = "ok"
    /\ flat = <<>>
    /\ Len(loading) < args.loading_threads
    /\ nBatches < MaxBatches
    /\ take_count(pids, args.batch_p) > 0
    /\ LET restart == taken = take_count(pids, args.batch_p)
           buf     == IF restart THEN unique(pids) ELSE buffer
       IN  \E pid \in buf :
               \E r \in {sample_k_fids_for_pid(pid, fids, pids,
                                                args.batch_k, perm) :
                         perm \in ShuffleOutcomes(
                             padded_count(args.batch_k, Count(pid, pids)))} :
                 /\ buffer' = buf \ {pid}
                 /\ taken' = (IF restart THEN 0 ELSE taken) + 1
                 /\ epoch' = IF restart THEN epoch + 1 ELSE epoch
                 /\ IF UnbatchOk(r) /\ r.pids # <<>>
                    THEN \E pairs \in {unbatch(r)} :
                           /\ loading' = StartCall(loading, pairs[1])
                           /\ flat' = Tail(pairs)
                           /\ it_status' = "ok"
                    ELSE /\ UNCHANGED <<loading, flat>>
                         /\ it_status' = "error"
    /\ UNCHANGED <<loaded, batch, nBatches, dataVars, selVars, mainVars>>

\* repeat() over an empty input (take(0)) ends the sequence at the first
\* pull instead of looping.
EndOfInput ==
    /\ it_status = "ok"
    /\ take_count(pids, args.batch_p) = 0
    /\ it_status' = "end_of_sequence"
    /\ UNCHANGED <<buffer, taken, epoch, flat, loading, loaded, batch,
                   nBatches, dataVars, selVars, mainVars>>

\* lines 267-269: common.fid_to_image(fid, pid, ...) loads the image file
\* named by fid and hands fid and pid on with it (the maps of lines 273-283
\* take its result apart as (im, fid, pid)).  Image n + 1000 stands for the
\* decoded file n.
fid_to_image(fid, pid) == <<fid + 1000, fid, pid>>

\* Sequence q without its j-th element.
RemoveAt(q, j) == SubSeq(q, 1, j - 1) \o SubSeq(q, j + 1, Len(q))

\* A bug variant: any finished call is handed on, whatever its position.
AnyFinished(q) == {j \in 1..Len(q) : q[j].out # <<>>}

\* lines 266-270: map(..., num_parallel_calls=...) hands its results on in
\* the order of its input: only the oldest call in flight can be the next.
NextResult(q) == IF q # <<>> /\ q[1].out # <<>> THEN {1} ELSE {}

\* lines 261-270: the parallel map pulls the next (fid, pid) pair of the
\* element unbatch holds and starts a call for it; at most loading_threads
\* results are in the making or waiting to be pulled.
Dispatch ==
    /\ it_status = "ok"
    /\ flat # <<>>
    /\ Len(loading) < args.loading_threads
    /\ loading' = StartCall(loading, flat[1])
    /\ flat' = Tail(flat)
    /\ UNCHANGED <<buffer, taken, epoch, loaded, batch, nBatches, it_status,
                   dataVars, selVars, mainVars>>

\* lines 266-270: one of the calls in flight finishes; the threads run
\* independently, so any unfinished call may be the one.
Complete ==
    /\ \E j \in 1..Len(loading) :
         /\ loading[j].out = <<>>
         /\ loading' = [loading EXCEPT
                           ![j].out = <<fid_to_image(loading[j].fid,
                                                     loading[j].pid)>>]
    /\ UNCHANGED <<buffer, taken, epoch, flat, loaded, batch, nBatches,
                   it_status, dataVars, selVars, mainVars>>

\* lines 266-270, 287, 290: the batch stage pulls the next result of the
\* map.  prefetch(1) asks for a batch only while its buffer is empty.
Deliver ==
    /\ batch = <<>>
    /\ Len(loaded) < batch_size
    /\ \E j \in NextResult(loading) :
         /\ loaded' = Append(loaded, loading[j].out[1])
         /\ loading' = RemoveAt(loading, j)
    /\ UNCHANGED <<buffer, taken, epoch, flat, batch, nBatches, it_status,
                   dataVars, selVars, mainVars>>

\* lines 286-287: dataset.batch(batch_size)
EmitBatch ==
    /\ it_status = "ok"
    /\ Len(loaded) >= batch_size
    /\ batch' = SubSeq(loaded, 1, batch_size)
    /\ loaded' = SubSeq(loaded, batch_size + 1, Len(loaded))
    /\ nBatches' = nBatches + 1
    /\ UNCHANGED <<buffer, taken, epoch, flat, loading, it_status, dataVars,
                   selVars, mainVars>>

\* lines 294, 461: get_next() takes the batch out of the prefetch buffer.
GetNext ==
    /\ batch # <<>>
    /\ batch' = <<>>
    /\ UNCHANGED <<buffer, taken, epoch, flat, loading, loaded, nBatches,
                   it_status, dataVars, selVars, mainVars>>

PipeArgs(p, k, t) ==
    [resume |-> 0, train_set |-> 1, image_root |-> 1, batch_p |-> p,
     batch_k |-> k, train_iterations |-> MaxIter, checkpoint_frequency |-> 0,
     loading_threads |-> t]

\* Identity labels are opaque tokens and the shuffle ignores their order,
\* so the pipeline is started on one dataset of every relabelling class:
\* the labels appear in the rows in the order 1, 2, 3, ...
FirstUseOrder(ps) ==
    \A r \in 1..Len(ps) : ps[r] <= Cardinality({ps[q] : q \in 1..(r - 1)}) + 1

InitPipe ==
    /\ pids \in {ps \in PidSeqs : FirstUseOrder(ps)}
    /\ fids = Locators(pids)
    /\ call = <<>>
    /\ IteratorInit
    /\ pc = "exited"
    /\ args \in {PipeArgs(p, k, t) :
                   p \in 1..MaxP, k \in 1..MaxBatchK, t \in 1..MaxThreads}
    /\ warned = {}
    /\ disk = <<>>
    /\ disk0 = <<>>
    /\ global_step = 0
    /\ step = <<>>
    /\ i = 0
    /\ interrupted = FALSE
    /\ exit_status = <<>>
    /\ failure = "none"
    /\ saves = <<>>

NextPipe ==
    \/ MapNext
    \/ EndOfInput
    \/ Dispatch
    \/ Complete
    \/ Deliver
    \/ EmitBatch
    \/ GetNext

SpecPipe == InitPipe /\ [][NextPipe]_vars

(***************************************************************************)
(* main() (train.py:175-532): one process at a time runs against the       *)
(* experiment directory; the directory outlives the process.               *)
(***************************************************************************)
\* The csv files a train_set path can name: file 1 lists three images of
\* two identities, file 2 lists none.
CsvRows(train_set) == IF train_set = 1 THEN <<1, 1, 2>> ELSE <<>>

\* The command lines of the model.  0 stands for None / False, 1 for True
\* or an existing image_root.
CliArgs ==
    {[resume |-> r, train_set |-> t, image_root |-> m, batch_p |-> p,
      batch_k |-> 2, train_iterations |-> n, checkpoint_frequency |-> f] :
        r \in {0, 1}, t \in {0, 1, 2}, m \in {0, 1}, p \in {2, 3},
        n \in 1..MaxIter, f \in 0..MaxFreq}

NoDir == [exists |-> FALSE, foreign |-> FALSE, args_json |-> <<>>,
          log |-> FALSE, summaries |-> FALSE, ckpts |-> {}, latest |-> <<>>]

\* A bug variant: only files of other programs count as content.
ForeignOnly(d) == d.foreign

\* os.listdir(args.experiment_root) is not empty
NonEmpty(d) ==
    \/ d.foreign
    \/ d.args_json # <<>>
    \/ d.log
    \/ d.summaries
    \/ d.ckpts # {}

\* the process ends: exit(status), sys.exit(status) or an uncaught exception
ExitWith(status, cause) ==
    /\ pc' = "exited"
    /\ exit_status' = <<status>>
    /\ failure' = cause

\* A bug variant: the checkpoint holds the key in place of the session's
\* global_step.
SaveKeyed(d, key, gs) ==
    [d EXCEPT !.ckpts = {c \in @ : c[1] # key} \cup {<<key, key>>},
              !.latest = <<key>>]

\* checkpoint_saver.save(sess, .../checkpoint, global_step=key): the file
\* set checkpoint-<key> holds the session's variables (gs is the value of
\* global_step) and becomes the latest checkpoint; max_to_keep=0 keeps all.
SaveTo(d, key, gs) ==
    [d EXCEPT !.ckpts = {c \in @ : c[1] # key} \cup {<<key, gs>>},
              !.latest = <<key>>]

\* A bug variant: the value given on the command line is kept.
KeepGiven(a, args_resumed) == a

\* lines 194-204: the loop over args.__dict__ on resume
MergeResumed(a, args_resumed) ==
    [key \in DOMAIN a |->
        IF key \in DOMAIN args_resumed
        THEN (IF args_resumed[key] # a[key] THEN args_resumed[key] ELSE a[key])
        ELSE a[key]]
ConflictWarnings(a, args_resumed) ==
    {key \in DOMAIN a :
        key \in DOMAIN args_resumed /\ args_resumed[key] # a[key]}

\* line 189: args_resumed['resume'] = True
LoadResumed(d) == [d.args_json[1] EXCEPT !["resume"] = 1]

InitMain ==
    /\ pids = <<>>
    /\ fids = <<>>
    /\ call = <<>>
    /\ PipeIdle
    /\ pc = "exited"
    /\ args = <<>>
    /\ warned = {}
    /\ disk \in {NoDir,
                 [NoDir EXCEPT !.exists = TRUE],
                 [NoDir EXCEPT !.exists = TRUE, !.foreign = TRUE]}
    /\ disk0 = disk
    /\ global_step = 0
    /\ step = <<>>
    /\ i = 0
    /\ interrupted = FALSE
    /\ exit_status = <<>>
    /\ failure = "none"
    /\ saves = <<>>

\* line 176: a process is started with a command line
Launch ==
    /\ pc = "exited"
    /\ \E cli \in CliArgs : args' = cli
    /\ pc' = "args"
    /\ warned' = {}
    /\ disk0' = disk
    /\ global_step' = 0
    /\ step' = <<>>
    /\ i' = 0
    /\ interrupted' = FALSE
    /\ exit_status' = <<>>
    /\ failure' = "none"
    /\ saves' = <<>>
    /\ pids' = <<>>
    /\ fids' = <<>>
    /\ UNCHANGED <<disk, selVars, pipeVars>>

\* lines 181-220
HandleArgs ==
    /\ pc = "args"
    /\ IF args.resume = 1
       THEN IF disk.args_json = <<>>
            THEN /\ ExitWith(1, "no_args_json")
                 /\ UNCHANGED <<args, warned, disk>>
            ELSE /\ args' = MergeResumed(args, LoadResumed(disk))
                 /\ warned' = ConflictWarnings(args, LoadResumed(disk))
                 /\ pc' = "logging"
                 /\ UNCHANGED <<disk, exit_status, failure>>
       ELSE IF disk.exists /\ NonEmpty(disk)
            THEN /\ ExitWith(1, "dir_not_empty")
                 /\ UNCHANGED <<args, warned, disk>>
            ELSE /\ disk' = [disk EXCEPT !.exists = TRUE, !.args_json = <<args>>]
                 /\ pc' = "logging"
                 /\ UNCHANGED <<args, warned, exit_status, failure>>
    /\ UNCHANGED <<disk0, global_step, step, i, interrupted, saves,
                   dataVars, selVars, pipeVars>>

\* lines 222-229: the log file is opened and the parameters are logged
SetupLogging ==
    /\ pc = "logging"
    /\ disk' = [disk EXCEPT !.log = TRUE]
    /\ pc' = "check_args"
    /\ UNCHANGED <<args, warned, disk0, global_step, step, i, interrupted,
                   exit_status, failure, saves, dataVars, selVars, pipeVars>>

\* lines 232-239
CheckRequired ==
    /\ pc = "check_args"
    /\ IF args.train_set = 0
       THEN ExitWith(1, "no_train_set")
       ELSE IF args.image_root = 0
            THEN ExitWith(1, "no_image_root")
            ELSE pc' = "load" /\ UNCHANGED <<exit_status, failure>>
    /\ UNCHANGED <<args, warned, disk, disk0, global_step, step, i,
                   interrupted, saves, dataVars, selVars, pipeVars>>

\* lines 242-243: max() of an empty fids raises ValueError
LoadDataset ==
    /\ pc = "load"
    /\ pids' = CsvRows(args.train_set)
    /\ fids' = Locators(CsvRows(args.train_set))
    /\ IF CsvRows(args.train_set) = <<>>
       THEN ExitWith(1, "bad_dataset")
       ELSE pc' = "build" /\ UNCHANGED <<exit_status, failure>>
    /\ UNCHANGED <<args, warned, disk, disk0, global_step, step, i,
                   interrupted, saves, selVars, pipeVars>>

\* lines 245-424: the pipeline, the model, the loss, the optimizer and the
\* saver are constructed; nothing compares len(unique_pids) with batch_p.
BuildGraph ==
    /\ pc = "build"
    /\ pc' = "session"
    /\ UNCHANGED <<args, warned, disk, disk0, global_step, step, i,
                   interrupted, exit_status, failure, saves, dataVars,
                   selVars, pipeVars>>

\* lines 426-456: restore or initialise, store the initialisation, open
\* the summary writers, read start_step and enter Uninterrupt
OpenSession ==
    /\ pc = "session"
    /\ IF args.resume = 1
       THEN IF disk.latest = <<>>
            THEN \* tf.train.latest_checkpoint is None: restore raises
                 /\ ExitWith(1, "no_checkpoint")
                 /\ UNCHANGED <<disk, global_step, i, saves>>
            ELSE LET restored ==
                       (CHOOSE c \in disk.ckpts : c[1] = disk.latest[1])[2]
                 IN  /\ global_step' = restored
                     /\ i' = restored
                     /\ disk' = [disk EXCEPT !.summaries = TRUE]
                     /\ pc' = "loop"
                     /\ UNCHANGED <<saves, exit_status, failure>>
       ELSE /\ global_step' = 0
            /\ i' = 0
            /\ disk' = [SaveTo(disk, 0, 0) EXCEPT !.summaries = TRUE]
            /\ saves' = Append(saves, [at |-> "init", key |-> 0])
            /\ pc' = "loop"
            /\ UNCHANGED <<exit_status, failure>>
    /\ interrupted' = FALSE
    /\ UNCHANGED <<args, warned, disk0, step, dataVars, selVars, pipeVars>>

\* line 457: for i in range(start_step, args.train_iterations)
LoopHead ==
    /\ pc = "loop"
    /\ pc' = IF i < args.train_iterations THEN "fetch" ELSE "final"
    /\ UNCHANGED <<args, warned, disk, disk0, global_step, step, i,
                   interrupted, exit_status, failure, saves, dataVars,
                   selVars, pipeVars>>

\* line 461: sess.run([images, pids]) pulls the next batch (its content is
\* what SpecPipe models); with take(0) the iterator is at its end and
\* OutOfRangeError leaves main().
FetchBatch ==
    /\ pc = "fetch"
    /\ IF take_count(pids, args.batch_p) > 0
       THEN pc' = "train" /\ UNCHANGED <<exit_status, failure>>
       ELSE ExitWith(1, "out_of_range")
    /\ UNCHANGED <<args, warned, disk, disk0, global_step, step, i,
                   interrupted, saves, dataVars, selVars, pipeVars>>

\* The value sess.run returns for global_step when it is fetched in the
\* run that also executes train_op: no control dependency orders the read
\* and the increment, so it is the value before or after the increment.
FetchedStep(gs) == {gs, gs + 1}

\* lines 462-463
TrainStep ==
    /\ pc = "train"
    /\ global_step' = global_step + 1
    /\ \E fetched \in FetchedStep(global_step) : step' = <<fetched>>
    /\ pc' = "log"
    /\ UNCHANGED <<args, warned, disk, disk0, i, interrupted, exit_status,
                   failure, saves, dataVars, selVars, pipeVars>>

\* lines 465-515: summaries and the progress line
LogStep ==
    /\ pc = "log"
    /\ pc' = "checkpoint"
    /\ UNCHANGED <<args, warned, disk, disk0, global_step, step, i,
                   interrupted, exit_status, failure, saves, dataVars,
                   selVars, pipeVars>>

\* A bug variant: the frequency test is dropped.
CheckpointAlways(freq, n) == TRUE

\* A bug variant: the boundary is taken one iteration early.
CheckpointOffByOne(freq, n) == freq > 0 /\ (n + 1) % freq = 0

\* lines 518-519
CheckpointDue(freq, n) == freq > 0 /\ n % freq = 0

\* lines 517-521
CheckpointStep ==
    /\ pc = "checkpoint"
    /\ IF CheckpointDue(args.checkpoint_frequency, step[1])
       THEN /\ disk' = SaveTo(disk, step[1], global_step)
            /\ saves' = Append(saves, [at |-> "loop", key |-> step[1]])
       ELSE UNCHANGED <<disk, saves>>
    /\ pc' = "check"
    /\ UNCHANGED <<args, warned, disk0, global_step, step, i, interrupted,
                   exit_status, failure, dataVars, selVars, pipeVars>>

\* A bug variant: the request to stop is never honoured.
NeverBreak(u_interrupted) == FALSE

\* line 524: if u.interrupted
ShouldBreak(u_interrupted) == u_interrupted

\* lines 523-526
CheckInterrupted ==
    /\ pc = "check"
    /\ IF ShouldBreak(interrupted)
       THEN pc' = "final" /\ i' = i
       ELSE pc' = "loop" /\ i' = i + 1
    /\ UNCHANGED <<args, warned, disk, disk0, global_step, step,
                   interrupted, exit_status, failure, saves, dataVars,
                   selVars, pipeVars>>

\* lines 528-532: `step` is bound only by the loop body
FinalSave ==
    /\ pc = "final"
    /\ IF step = <<>>
       THEN /\ ExitWith(1, "unbound_step")
            /\ UNCHANGED <<disk, saves>>
       ELSE /\ disk' = SaveTo(disk, step[1], global_step)
            /\ saves' = Append(saves, [at |-> "final", key |-> step[1]])
            /\ ExitWith(0, "none")
    /\ UNCHANGED <<args, warned, disk0, global_step, step, i, interrupted,
                   dataVars, selVars, pipeVars>>

\* The positions inside `with lb.Uninterrupt(...) as u` (lines 456-526).
InLoop == {"loop", "fetch", "train", "log", "checkpoint", "check"}

\* SIGINT or SIGTERM while Uninterrupt is entered: the handler sets
\* u.interrupted and returns.
Signal ==
    /\ pc \in InLoop
    /\ interrupted' = TRUE
    /\ UNCHANGED <<pc, args, warned, disk, disk0, global_step, step, i,
                   exit_status, failure, saves, dataVars, selVars, pipeVars>>

Next ==
    \/ Launch
    \/ HandleArgs
    \/ SetupLogging
    \/ CheckRequired
    \/ LoadDataset
    \/ BuildGraph
    \/ OpenSession
    \/ LoopHead
    \/ FetchBatch
    \/ TrainStep
    \/ LogStep
    \/ CheckpointStep
    \/ CheckInterrupted
    \/ FinalSave
    \/ Signal

Spec == InitMain /\ [][Next]_vars

\* The statements of one python process: once launched, the interpreter
\* keeps executing main() until it returns or raises.  Launching a run and
\* sending a signal are up to the user.
ProcessStep ==
    \/ HandleArgs
    \/ SetupLogging
    \/ CheckRequired
    \/ LoadDataset
    \/ BuildGraph
    \/ OpenSession
    \/ LoopHead
    \/ FetchBatch
    \/ TrainStep
    \/ LogStep
    \/ CheckpointStep
    \/ CheckInterrupted
    \/ FinalSave

\* The runs of one experiment: once its args.json exists, every further run
\* is started with --resume.
LaunchRun ==
    /\ Launch
    /\ disk.args_json # <<>> => args'.resume = 1

NextRuns ==
    \/ LaunchRun
    \/ ProcessStep
    \/ Signal

FairSpec == InitMain /\ [][NextRuns]_vars /\ WF_vars(ProcessStep)

(***************************************************************************)
(* Properties of main() (checked under Spec).                              *)
(***************************************************************************)
\* a process has been started (args is the namespace of the last one)
Started == pc # "exited" \/ exit_status # <<>>
Exited == pc = "exited" /\ exit_status # <<>>
NumIdentities == Cardinality(unique(pids))
BeforeSession == {"args", "logging", "check_args", "load", "build"}

\* C5 as stated: with fewer than P unique identities building the sampler
\* fails as a configuration error, so the process never gets past the
\* construction of the pipeline, stores no checkpoint and ends with that
\* error.
C5_InsufficientIdentitiesRejected ==
    (Started /\ pids # <<>> /\ NumIdentities < args.batch_p) =>
        /\ pc \in BeforeSession \cup {"exited"}
        /\ saves = <<>>
        /\ Exited => (exit_status # <<0>> /\ failure = "insufficient_identities")

\* C6 as stated: whenever the process has left the training loop (the
\* iteration count was reached, an interruption was requested, or no
\* iteration was left on resume) its last act was to store a final
\* checkpoint keyed by the last iteration number.
C6_FinalCheckpointOnEveryLoopExit ==
    (Exited /\ failure \in {"none", "unbound_step"}) =>
        /\ saves # <<>>
        /\ saves[Len(saves)].at = "final"
        /\ saves[Len(saves)].key = (IF step # <<>> THEN step[1] ELSE global_step)
        /\ disk.latest = <<saves[Len(saves)].key>>

StepOrder(p) ==
    CASE p = "fetch" -> "train"
      [] p = "train" -> "log"
      [] p = "log" -> "checkpoint"
      [] p = "checkpoint" -> "check"
      [] OTHER -> p

\* C7: a signal during a training step only sets the flag; with the flag
\* set the step in flight still runs optimizer update, logging and
\* checkpoint decision in order, the flag is acted on at the end of the
\* step only, and then the loop is left for the final checkpoint without
\* another step being started.
C7_InterruptCompletesStep ==
    [][/\ (interrupted' # interrupted /\ pc \in InLoop) =>
              /\ interrupted'
              /\ UNCHANGED <<pc, args, warned, disk, global_step, step, i,
                             exit_status, failure, saves>>
       /\ (interrupted /\ pc \in {"train", "log", "checkpoint"}
              /\ pc' # pc) =>
              /\ pc' = StepOrder(pc)
              /\ (pc = "train" => global_step' = global_step + 1)
              /\ (pc = "checkpoint" =>
                     ((saves' # saves) <=>
                        (args.checkpoint_frequency > 0
                         /\ step[1] % args.checkpoint_frequency = 0)))
       /\ (interrupted /\ pc = "fetch" /\ pc' # pc) =>
              pc' \in {"train", "exited"}
       /\ (interrupted /\ pc = "check" /\ pc' # pc) => pc' = "final"
       /\ (pc = "final") => pc' \in {"final", "exited"}
      ]_vars

\* A step was interrupted before its optimizer update, ran to its end,
\* stored its periodic checkpoint and the loop was left with iterations to
\* go.
C7_Witness ==
    /\ pc = "final"
    /\ interrupted
    /\ step # <<>>
    /\ i + 1 < args.train_iterations
    /\ Len(saves) >= 1
    /\ saves[Len(saves)].at = "loop"

ResumeMerge == pc = "args" /\ args.resume = 1 /\ disk.args_json # <<>>

\* C8 as stated: on resume every argument whose value in args.json differs
\* from the supplied one takes the persisted value, with a warning, and the
\* run continues.
C8_PersistedWinsForEveryArgument ==
    [][ResumeMerge =>
          /\ pc' = "logging"
          /\ \A key \in DOMAIN args :
                (key \in DOMAIN disk.args_json[1]
                 /\ disk.args_json[1][key] # args[key]) =>
                    /\ args'[key] = disk.args_json[1][key]
                    /\ key \in warned'
      ]_vars

\* C8 amended: on resume every argument other than `resume` whose value in
\* args.json differs from the supplied one takes the persisted value, with
\* a warning, and the run continues without an exception; `resume` itself
\* stays true without a warning although args.json holds false.
C8_PersistedWinsExceptResume ==
    [][ResumeMerge =>
          /\ pc' = "logging"
          /\ exit_status' = <<>>
          /\ \A key \in DOMAIN args \ {"resume"} :
                (key \in DOMAIN disk.args_json[1]
                 /\ disk.args_json[1][key] # args[key]) =>
                    /\ args'[key] = disk.args_json[1][key]
                    /\ key \in warned'
          /\ args'.resume = 1
          /\ "resume" \notin warned'
      ]_vars

\* A resumed process runs with the persisted batch_p after a warning, and
\* has gone on into the training loop.
C8_Witness ==
    /\ pc = "train"
    /\ args.resume = 1
    /\ "batch_p" \in warned
    /\ args.batch_p = disk.args_json[1].batch_p
    /\ disk.args_json[1].resume = 0

FatalErrors == {"no_train_set", "no_image_root", "bad_dataset",
                "no_args_json", "dir_not_empty"}

\* C9 as stated: a fatal error ends the process with a non-zero status
\* before anything under experiment_root was created or modified.
C9_FatalBeforeMutation ==
    (Exited /\ failure \in FatalErrors) =>
        /\ exit_status # <<0>>
        /\ disk = disk0

CompleteRun ==
    Exited /\ exit_status = <<0>> /\ i = args.train_iterations

C11_LoopStateMachine ==
    [][/\ (pc = "session" /\ pc' # pc) => pc' \in {"loop", "exited"}
       /\ (pc' = "fetch" /\ pc # "fetch") =>
              (pc = "loop" /\ i < args.train_iterations)
       /\ (pc = "checkpoint" /\ pc' # pc) =>
              /\ pc' = "check"
              /\ IF args.checkpoint_frequency > 0
                    /\ step[1] % args.checkpoint_frequency = 0
                 THEN /\ saves' = Append(saves, [at |-> "loop", key |-> step[1]])
                      /\ disk'.latest = <<step[1]>>
                 ELSE saves' = saves /\ disk' = disk
       /\ (pc \in InLoop \ {"checkpoint"}) => (saves' = saves /\ disk' = disk)
       /\ (pc = "check" /\ pc' # pc /\ ~interrupted) =>
              (pc' = "loop" /\ i' = i + 1)
       /\ (pc' = "final" /\ pc # "final") =>
              \/ (pc = "loop" /\ i >= args.train_iterations)
              \/ (pc = "check" /\ interrupted)
       /\ (pc = "final") => pc' \in {"final", "exited"}
      ]_vars

\* A run wrote a periodic checkpoint at a multiple of the frequency 2, went
\* on, and left the loop because the iteration count was reached.
C11_Witness ==
    /\ pc = "final"
    /\ ~interrupted
    /\ i = args.train_iterations
    /\ args.checkpoint_frequency = MaxFreq
    /\ \E j \in 1..Len(saves) : saves[j].at = "loop"

\* C14: a fresh start on an existing, non-empty experiment directory exits
\* with status 1 and leaves the directory as it was (no args.json written, no
\* checkpoint stored); args.json changes only in a fresh start on an empty
\* or new directory, which writes the given arguments; a resumed run never
\* changes it.
C14_FreshStartRefusesNonEmptyDir ==
    [][/\ (/\ pc = "args"
           /\ args.resume = 0
           /\ disk.exists
           /\ \/ disk.foreign
              \/ disk.args_json # <<>>
              \/ disk.log
              \/ disk.summaries
              \/ disk.ckpts # {})
          => /\ pc' = "exited"
             /\ exit_status' = <<1>>
             /\ disk' = disk
             /\ saves' = saves
       /\ (disk'.args_json # disk.args_json)
          => /\ pc = "args"
             /\ args.resume = 0
             /\ disk \in {NoDir, [NoDir EXCEPT !.exists = TRUE]}
             /\ disk'.args_json = <<args>>
       /\ (pc # "exited" /\ args.resume = 1)
          => disk'.args_json = disk.args_json
      ]_vars

\* A fresh start was refused on the directory of an earlier experiment,
\* whose args.json and checkpoints are all still there.
C14_Witness ==
    /\ pc = "exited"
    /\ failure = "dir_not_empty"
    /\ exit_status = <<1>>
    /\ args.resume = 0
    /\ disk.args_json # <<>>
    /\ disk.args_json # <<args>>
    /\ disk.ckpts # {}
    /\ disk = disk0

\* global_step as stored in the latest checkpoint of directory d
LatestContent(d) ==
    IF d.latest = <<>> THEN 0
    ELSE (CHOOSE c \in d.ckpts : c[1] = d.latest[1])[2]

\* C13: over the runs on one experiment directory, a resumed run enters the
\* loop with the iteration counter of the latest checkpoint; the counter
\* never decreases, neither inside a run nor in the checkpoint the next run
\* resumes from, and a run that stores its final checkpoint stores its last
\* counter; no step runs at an index >= train_iterations and the index
\* advances by one per completed step; a run that is in the loop, at the
\* loop head with the counter at train_iterations in particular, ends.
C13_ResumeMonotoneAndTerminates ==
    /\ [](pc \in InLoop \ {"loop"} => i < args.train_iterations)
    /\ [](pc \in InLoop =>
             /\ LatestContent(disk0) <= i
             /\ i <= global_step
             /\ (args.resume = 1 =>
                    i - LatestContent(disk0)
                    <= IF args.train_iterations > LatestContent(disk0)
                       THEN args.train_iterations - LatestContent(disk0)
                       ELSE 0))
    /\ [][/\ (pc = "session" /\ pc' = "loop" /\ args.resume = 1) =>
                 /\ i' = LatestContent(disk)
                 /\ global_step' = LatestContent(disk)
          /\ LatestContent(disk') >= LatestContent(disk)
          /\ (pc \in InLoop) =>
                 /\ global_step' >= global_step
                 /\ i' \in {i, i + 1}
                 /\ i' = i + 1 => (pc = "check" /\ i < args.train_iterations)
          /\ (pc = "final" /\ failure' = "none") =>
                 LatestContent(disk') = global_step
         ]_vars
    /\ (pc \in InLoop) ~> (pc = "exited")

\* A resumed run took up the counter of an interrupted run, ran the steps
\* that were left and came out of the loop at train_iterations.
C13_Witness ==
    /\ pc = "final"
    /\ args.resume = 1
    /\ ~interrupted
    /\ LatestContent(disk0) >= 1
    /\ LatestContent(disk0) < args.train_iterations
    /\ i = args.train_iterations
    /\ step # <<>>

(***************************************************************************)
(* Properties of the K-selector (checked under SpecSel).                   *)
(***************************************************************************)
Called == call # <<>>
Occurrences(x, t) == Cardinality({j \in 1..Len(t) : t[j] = x})
\* the locators of the rows of identity pid
FidsOf(pid) == {fids[r] : r \in {q \in 1..Len(pids) : pids[q] = pid}}
FloorDiv(a, b) == a \div b
Max(a, b) == IF a > b THEN a ELSE b

\* C2 as stated: with count < K every sample of the identity appears at
\* least floor(K/count) and at most ceil(K/count) times in the output.
C2_BalancedOversampling ==
    (Called /\ call[1].count < call[1].batch_k) =>
        \A f \in FidsOf(call[1].pid) :
            /\ Occurrences(f, call[1].selected_fids)
                   >= FloorDiv(call[1].batch_k, call[1].count)
            /\ Occurrences(f, call[1].selected_fids)
                   <= CeilDiv(call[1].batch_k, call[1].count)

\* C2 amended: with count < K every sample of the identity appears at most
\* ceil(K/count) times and at least ceil(K/count) - (padded_count - K)
\* times (at least 0), where padded_count = ceil(K/count) * count; the K
\* outputs are all samples of the identity.
C2_OversamplingBounds ==
    (Called /\ call[1].count < call[1].batch_k) =>
        LET c == CeilDiv(call[1].batch_k, call[1].count)
            dropped == c * call[1].count - call[1].batch_k
        IN  /\ Len(call[1].selected_fids) = call[1].batch_k
            /\ \A j \in 1..Len(call[1].selected_fids) :
                   call[1].selected_fids[j] \in FidsOf(call[1].pid)
            /\ \A f \in FidsOf(call[1].pid) :
                   /\ Occurrences(f, call[1].selected_fids) <= c
                   /\ Occurrences(f, call[1].selected_fids)
                          >= Max(0, c - dropped)

\* An oversampling call that left one sample of the identity out entirely.
C2_Witness ==
    /\ Called
    /\ call[1].count < call[1].batch_k
    /\ call[1].count >= 3
    /\ \E f \in FidsOf(call[1].pid) :
           Occurrences(f, call[1].selected_fids) = 0

\* C3: with count >= K the K selected indices (and so the K selected
\* samples) of one call are pairwise distinct, whatever the shuffle.
C3_NoDuplicates ==
    (Called /\ call[1].count >= call[1].batch_k) =>
        /\ Len(call[1].indices) = call[1].batch_k
        /\ \A a, b \in 1..Len(call[1].indices) :
               a # b => /\ call[1].indices[a] # call[1].indices[b]
                        /\ call[1].selected_fids[a] # call[1].selected_fids[b]

\* A call with 2 <= K <= count whose output is not in row order.
C3_Witness ==
    /\ Called
    /\ call[1].batch_k >= 2
    /\ call[1].count > call[1].batch_k
    /\ call[1].indices[1] > call[1].indices[2]

\* C4: for count >= 1 and K >= 1, K > count included, the call does not
\* fail and returns exactly K locators of the requested identity with K
\* copies of its label; with count = 1 the K locators are the same sample.
C4_AlwaysKOfIdentity ==
    (Called /\ call[1].count >= 1 /\ call[1].batch_k >= 1) =>
        /\ call[1].ok
        /\ Len(call[1].selected_fids) = call[1].batch_k
        /\ \A j \in 1..Len(call[1].selected_fids) :
               call[1].selected_fids[j] \in FidsOf(call[1].pid)
        /\ call[1].pids = [j \in 1..call[1].batch_k |-> call[1].pid]
        /\ (call[1].count = 1 =>
               \A a, b \in 1..Len(call[1].selected_fids) :
                   call[1].selected_fids[a] = call[1].selected_fids[b])

\* A call with K > count on an identity with one sample, and one with
\* K > count > 1 is covered by C2_Witness.
C4_Witness ==
    /\ Called
    /\ call[1].count = 1
    /\ call[1].batch_k = MaxK
    /\ call[1].ok
    /\ Len(call[1].selected_fids) = MaxK

(***************************************************************************)
(* Properties of the pipeline (checked under SpecPipe).                    *)
(***************************************************************************)
BatchPids == {batch[j][3] : j \in 1..Len(batch)}
PidOccurrences(pid) == Cardinality({j \in 1..Len(batch) : batch[j][3] = pid})

\* C1: every emitted batch has exactly P*K entries and exactly P distinct
\* identities, each occurring exactly K times, in every epoch.
C1_BatchIsPK ==
    batch # <<>> =>
        /\ Len(batch) = args.batch_p * args.batch_k
        /\ Cardinality(BatchPids) = args.batch_p
        /\ \A pid \in BatchPids : PidOccurrences(pid) = args.batch_k

\* The first batch of the second epoch has been emitted, from a dataset
\* with more identities than one epoch uses, P = 2 and an identity that
\* has fewer than K samples.
C1_Witness ==
    /\ batch # <<>>
    /\ epoch = 2
    /\ taken = args.batch_p
    /\ flat = <<>>
    /\ loading = <<>>
    /\ loaded = <<>>
    /\ nBatches >= 2
    /\ args.batch_p = 2
    /\ Cardinality(unique(pids)) > take_count(pids, args.batch_p)
    /\ \E pid \in BatchPids : Count(pid, pids) < args.batch_k

\* The (fid, pid) pairs of a sequence of loaded entries (im, fid, pid)
Pairs(q) == [j \in 1..Len(q) |-> <<q[j][2], q[j][3]>>]

\* The (fid, pid) pairs the calls in flight were started for
Calls(q) == [j \in 1..Len(q) |-> <<q[j].fid, q[j].pid>>]

\* The pairs handed out by the K-selector that are in no batch yet, oldest
\* first: the flat order as unbatch fixed it.
Pending == Pairs(loaded) \o Calls(loading) \o flat

IsPrefix(a, b) == Len(a) <= Len(b) /\ SubSeq(b, 1, Len(a)) = a

\* C12: with the calls of the parallel map finishing in any order, the
\* pairs handed out by the K-selector reach the batches in the order unbatch
\* fixed: no step reorders the pairs that are in no batch yet, and a new
\* batch is the first P*K of them, each as an image with the locator it was
\* loaded from and the label the K-selector paired with that locator (the
\* label of the locator's row); so the batch is P groups of K entries of
\* one identity each, group after group.
C12_ParallelLoadingKeepsPairingAndOrder ==
    [][IF batch' # batch /\ batch' # <<>>
       THEN /\ \A before \in {Pending} :
                 /\ Pairs(batch') = SubSeq(before, 1, batch_size)
                 /\ Pending' = SubSeq(before, batch_size + 1, Len(before))
            /\ \A j \in 1..Len(batch') :
                 /\ batch'[j][1] = batch'[j][2] + 1000
                 /\ \E r \in 1..Len(fids) :
                      fids[r] = batch'[j][2] /\ pids[r] = batch'[j][3]
            /\ \A j \in 1..Len(batch') :
                 batch'[j][3] = batch'[((j - 1) \div args.batch_k)
                                       * args.batch_k + 1][3]
            /\ \A j, h \in 1..Len(batch') :
                 (j - 1) \div args.batch_k # (h - 1) \div args.batch_k
                     => batch'[j][3] # batch'[h][3]
       ELSE \/ /\ loaded' = loaded
               /\ flat' = flat
               /\ Calls(loading') = Calls(loading)
            \/ \A before \in {Pending} : \A after \in {Pending'} :
                 IsPrefix(before, after)
      ]_vars

\* With a batch of two groups of two in the prefetch buffer, a later call
\* for the next batch has finished while the call before it is still
\* running.
C12_Witness ==
    /\ args.loading_threads >= 2
    /\ args.batch_p >= 2
    /\ args.batch_k >= 2
    /\ nBatches >= 1
    /\ batch # <<>>
    /\ Len(loading) >= 2
    /\ loading[1].out = <<>>
    /\ loading[2].out # <<>>

====
